---- MODULE Spec2Model ----
(***************************************************************************)
(* SiteFab: the build stages of src/SiteFab/SiteFab.py.                    *)
(*                                                                         *)
(*   parse()         groups the parsed posts into self.posts and the four  *)
(*                   PostCollections (tag, category, template, microdata)  *)
(*   process()       runs the plugin groups                                *)
(*   render()        renders the posts (render_posts) and quits            *)
(*                                                                         *)
(* A post is identified by post.id (post_idx, 1-based).  `parsed' keeps    *)
(* the metadata parser.parse() returned for each file, in file order.      *)
(* A PostCollections object is the set of <<collection name, post id>>     *)
(* pairs it holds.                                                         *)
(***************************************************************************)
EXTENDS Integers, Sequences, FiniteSets, TLC

\* ---------------------------------------------------------------- bounds
\* longest list of content files (self.filenames.posts)
MaxFiles == 2
\* longest list of content files of a site that reaches process() and render()
MaxStageFiles == 3
\* the value int(time.time()) returns while parse() runs
CurrentTime == 2

\* ------------------------------------------------------- front matter
\* a metadata field that is absent or empty (falsy in Python)
None == "None"

Templates == {"post"}
Categories == {"python"}
MicrodataTypes == {"Article"}
\* "python" is both a tag and a category name
TagNames == {"python", "web"}
Timestamps == {CurrentTime, CurrentTime + 1}

\* what parser.parse(file_content) can return as post.meta
PostMetas ==
    [hidden : BOOLEAN,
     creation_date_ts : Timestamps,
     template : Templates \cup {None},
     category : Categories \cup {None},
     microdata_type : MicrodataTypes \cup {None},
     tags : SUBSET TagNames]

VARIABLES
    pc,                  \* position in the build
    exit_code,           \* status the process exited with (0 while running)
    running,             \* self.cnts: timers started and not stopped
    post_idx,            \* parse(): id of the next post
    parsed,              \* parse(): metadata of the posts parsed so far
    posts,               \* self.posts, as post ids
    posts_by_tag,        \* self.posts_by_tag
    posts_by_category,   \* self.posts_by_category
    posts_by_template,   \* self.posts_by_template
    posts_by_microdata,  \* self.posts_by_microdata
    errors,              \* parse(): the local list `errors'
    warnings,            \* posts utils.warning was called for
    error_calls,         \* number of calls of utils.error
    log,                 \* execute_plugins calls, in order
    plugin_results,      \* self.plugin_results
    stop_on_error,       \* self.config.linter.stop_on_error
    rendered,            \* render_posts(): posts passed to template.render
    linted,              \* render_posts(): linter results, in order
    written,             \* render_posts(): posts whose index.html is written
    collections_rendered \* number of calls of self.posts_by_tag.render()

vars == <<pc, exit_code, running, post_idx, parsed, posts, posts_by_tag,
          posts_by_category, posts_by_template, posts_by_microdata, errors,
          warnings, error_calls, log, plugin_results, stop_on_error,
          rendered, linted, written, collections_rendered>>

parseVars == <<post_idx, parsed, posts, posts_by_tag, posts_by_category,
               posts_by_template, posts_by_microdata, errors, warnings>>
processVars == <<log, plugin_results>>
renderVars == <<rendered, linted, written, collections_rendered>>

\* ------------------------------------------------------------ helpers
\* SiteFab.OK, SiteFab.SKIPPED, SiteFab.ERROR
OK == 1
SKIPPED == 2
ERROR == 3

\* PostCollections.add(collection_name, post)
add(collection, name, id) == collection \cup {<<name, id>>}

\* PostCollections.get_as_list()
get_as_list(collection) == collection

\* the part of the site object parse() works on
Site ==
    [post_idx |-> post_idx, parsed |-> parsed, posts |-> posts,
     posts_by_tag |-> posts_by_tag,
     posts_by_category |-> posts_by_category,
     posts_by_template |-> posts_by_template,
     posts_by_microdata |-> posts_by_microdata,
     errors |-> errors, warnings |-> warnings]

\* parse(), lines 144-170: self.posts, the four collections, errors, post_idx
EmptySite ==
    [post_idx |-> 1, parsed |-> <<>>, posts |-> <<>>,
     posts_by_tag |-> {}, posts_by_category |-> {},
     posts_by_template |-> {}, posts_by_microdata |-> {},
     errors |-> <<>>, warnings |-> <<>>]

SetSite(s) ==
    /\ post_idx' = s.post_idx
    /\ parsed' = s.parsed
    /\ posts' = s.posts
    /\ posts_by_tag' = s.posts_by_tag
    /\ posts_by_category' = s.posts_by_category
    /\ posts_by_template' = s.posts_by_template
    /\ posts_by_microdata' = s.posts_by_microdata
    /\ errors' = s.errors
    /\ warnings' = s.warnings

\* ------------------------------------------------- parse(): loop body
IsHiddenAlwaysShown(post) == FALSE

\* line 182
IsHidden(post) == post.hidden

IsFutureInclusive(post) == post.creation_date_ts >= CurrentTime

\* line 186
IsFuture(post) == post.creation_date_ts > CurrentTime

\* lines 195-196.  `errors += str' extends the list by the characters of the
\* message; an entry here stands for the (non-empty) run of characters of one
\* of the two messages.
RecordNoTemplate(s, id) ==
    [s EXCEPT !.errors = @ \o <<<<id, "has no template defined.">>,
                                <<id, "Can't render it">>>>]

InsertMicrodataAlways(s, post, id) ==
    [s EXCEPT !.posts_by_microdata = add(@, post.microdata_type, id)]

\* lines 202-203
InsertMicrodata(s, post, id) ==
    IF post.microdata_type # None
    THEN [s EXCEPT !.posts_by_microdata = add(@, post.microdata_type, id)]
    ELSE s

InsertCategoryOnly(s, post, id) ==
    IF post.category # None
    THEN [s EXCEPT !.posts_by_category = add(@, post.category, id)]
    ELSE s

\* lines 206-209
InsertCategory(s, post, id) ==
    IF post.category # None
    THEN [s EXCEPT !.posts_by_category = add(@, post.category, id),
                   !.posts_by_tag = add(@, post.category, id)]
    ELSE s

\* lines 212-214
InsertTags(s, post, id) ==
    [s EXCEPT !.posts_by_tag = @ \cup {<<tag, id>> : tag \in post.tags}]

\* lines 174-216: one iteration of the loop over filenames
ParsePost(s, post) ==
    LET id == s.post_idx
        s0 == [s EXCEPT !.post_idx = id + 1, !.parsed = Append(@, post)]
    IN  IF IsHidden(post) THEN s0
        ELSE IF IsFuture(post)
        THEN [s0 EXCEPT !.warnings = Append(@, id)]
        ELSE LET s1 == [s0 EXCEPT !.posts = Append(@, id)]
             IN  IF post.template = None THEN RecordNoTemplate(s1, id)
                 ELSE LET s2 == [s1 EXCEPT !.posts_by_template =
                                               add(@, post.template, id)]
                      IN  InsertTags(
                            InsertCategory(
                              InsertMicrodata(s2, post, id), post, id),
                            post, id)

\* the whole loop over a list of files
RECURSIVE ParseAll(_, _)
ParseAll(s, metas) ==
    IF metas = <<>> THEN s
    ELSE ParseAll(ParsePost(s, Head(metas)), Tail(metas))

\* ------------------------------------------------------- construction
\* __init__: the Overall timer runs, Init has been started and stopped
Init ==
    /\ pc = "parse"
    /\ exit_code = 0
    /\ running = {"Overall"}
    /\ post_idx = 1
    /\ parsed = <<>>
    /\ posts = <<>>
    /\ posts_by_tag = {}
    /\ posts_by_category = {}
    /\ posts_by_template = {}
    /\ posts_by_microdata = {}
    /\ errors = <<>>
    /\ warnings = <<>>
    /\ error_calls = 0
    /\ log = <<>>
    /\ plugin_results = [k \in {OK, SKIPPED, ERROR} |-> 0]
    /\ stop_on_error \in BOOLEAN
    /\ rendered = <<>>
    /\ linted = <<>>
    /\ written = <<>>
    /\ collections_rendered = 0

\* ------------------------------------------------------------ parse()
\* lines 142-173
ParseBegin ==
    /\ pc = "parse"
    /\ running' = running \cup {"Parsing"}
    /\ SetSite(EmptySite)
    /\ pc' = "parse_loop"
    /\ UNCHANGED <<exit_code, error_calls, stop_on_error>>
    /\ UNCHANGED processVars
    /\ UNCHANGED renderVars

\* lines 174-216: the next file of filenames is read and parsed
ParseFile ==
    /\ pc = "parse_loop"
    /\ Len(parsed) < MaxFiles
    /\ \E post \in PostMetas : SetSite(ParsePost(Site, post))
    /\ UNCHANGED <<pc, exit_code, running, error_calls, stop_on_error>>
    /\ UNCHANGED processVars
    /\ UNCHANGED renderVars

HasErrorsSecondPost(errs) == Len(errs) > 2

\* line 218
HasErrors(errs) == Len(errs) > 0

\* lines 218-219, filenames exhausted: utils.error prints and ends the
\* process (as its use at lines 57-61 requires)
ParseReport ==
    /\ pc = "parse_loop"
    /\ HasErrors(errors)
    /\ error_calls' = error_calls + 1
    /\ pc' = "exited"
    /\ exit_code' = -1
    /\ UNCHANGED <<running, stop_on_error>>
    /\ UNCHANGED parseVars
    /\ UNCHANGED processVars
    /\ UNCHANGED renderVars

\* lines 218-221, filenames exhausted and no error recorded
ParseEnd ==
    /\ pc = "parse_loop"
    /\ ~HasErrors(errors)
    /\ running' = running \ {"Parsing"}
    /\ pc' = "process"
    /\ UNCHANGED <<exit_code, error_calls, stop_on_error>>
    /\ UNCHANGED parseVars
    /\ UNCHANGED processVars
    /\ UNCHANGED renderVars

NextParse == ParseBegin \/ ParseFile \/ ParseReport \/ ParseEnd

SpecParse == Init /\ [][NextParse]_vars

\* --------------------------------------------------- execute_plugins
\* what self.plugins.run_plugins returns: the counters of the one plugin
\* enabled in the class
PluginOutcomes == {OK, SKIPPED, ERROR}

\* lines 343-362
execute_plugins(items, plugin_class, unit) ==
    /\ log' = Append(log, [plugin_class |-> plugin_class, unit |-> unit,
                           items |-> items])
    /\ \E outcome \in PluginOutcomes :
          plugin_results' = [plugin_results EXCEPT ![outcome] = @ + 1]

\* ---------------------------------------------------------- process()
RunPostProcessorSkipCategories ==
    /\ pc = "process"
    /\ running' = running \cup {"Processing"}
    /\ execute_plugins(posts, "PostProcessor", " posts")
    /\ pc' = "process_tags"
    /\ UNCHANGED <<exit_code, error_calls, stop_on_error>>
    /\ UNCHANGED parseVars
    /\ UNCHANGED renderVars

\* lines 226-230
RunPostProcessor ==
    /\ pc = "process"
    /\ running' = running \cup {"Processing"}
    /\ execute_plugins(posts, "PostProcessor", " posts")
    /\ pc' = "process_categories"
    /\ UNCHANGED <<exit_code, error_calls, stop_on_error>>
    /\ UNCHANGED parseVars
    /\ UNCHANGED renderVars

\* lines 234-235
RunCategories ==
    /\ pc = "process_categories"
    /\ execute_plugins(get_as_list(posts_by_category),
                       "CollectionProcessor", " categories")
    /\ pc' = "process_tags"
    /\ UNCHANGED <<exit_code, running, error_calls, stop_on_error>>
    /\ UNCHANGED parseVars
    /\ UNCHANGED renderVars

\* lines 236-237
RunTags ==
    /\ pc = "process_tags"
    /\ execute_plugins(get_as_list(posts_by_tag),
                       "CollectionProcessor", " tags")
    /\ pc' = "process_templates"
    /\ UNCHANGED <<exit_code, running, error_calls, stop_on_error>>
    /\ UNCHANGED parseVars
    /\ UNCHANGED renderVars

\* lines 238-239
RunTemplates ==
    /\ pc = "process_templates"
    /\ execute_plugins(get_as_list(posts_by_template),
                       "CollectionProcessor", " templates")
    /\ pc' = "process_microdata"
    /\ UNCHANGED <<exit_code, running, error_calls, stop_on_error>>
    /\ UNCHANGED parseVars
    /\ UNCHANGED renderVars

\* lines 240-241
RunMicrodata ==
    /\ pc = "process_microdata"
    /\ execute_plugins(get_as_list(posts_by_microdata),
                       "CollectionProcessor", " microdata")
    /\ pc' = "process_site"
    /\ UNCHANGED <<exit_code, running, error_calls, stop_on_error>>
    /\ UNCHANGED parseVars
    /\ UNCHANGED renderVars

\* lines 245-246
RunSiteProcessor ==
    /\ pc = "process_site"
    /\ execute_plugins(<<1>>, "SiteProcessor", " site")
    /\ running' = running \ {"Processing"}
    /\ pc' = "render"
    /\ UNCHANGED <<exit_code, error_calls, stop_on_error>>
    /\ UNCHANGED parseVars
    /\ UNCHANGED renderVars

NextProcess ==
    \/ RunPostProcessor
    \/ RunCategories
    \/ RunTags
    \/ RunTemplates
    \/ RunMicrodata
    \/ RunSiteProcessor

\* ----------------------------------------------------------- render()
\* lines 251-252
RenderBegin ==
    /\ pc = "render"
    /\ running' = running \cup {"Rendering"}
    /\ pc' = "render_posts"
    /\ UNCHANGED <<exit_code, error_calls, stop_on_error>>
    /\ UNCHANGED parseVars
    /\ UNCHANGED processVars
    /\ UNCHANGED renderVars

StopOnAnyLintError(has_errors, stop) == has_errors

\* line 324
StopOnLint(has_errors, stop) == has_errors /\ stop

\* render_posts(), lines 308-331: one iteration of the loop over self.posts.
\* Every post of self.posts has a template here: parse() ends the build
\* when one has none.
RenderPost ==
    /\ pc = "render_posts"
    /\ Len(rendered) < Len(posts)
    /\ LET post == posts[Len(rendered) + 1]
       IN  /\ rendered' = Append(rendered, post)
           /\ \E has_errors \in BOOLEAN :
                 /\ linted' = Append(linted, [post |-> post,
                                              has_errors |-> has_errors])
                 /\ IF StopOnLint(has_errors, stop_on_error)
                    THEN /\ pc' = "exited"
                         /\ exit_code' = -1
                         /\ written' = written
                    ELSE /\ written' = Append(written, post)
                         /\ UNCHANGED <<pc, exit_code>>
    /\ UNCHANGED <<running, error_calls, stop_on_error, collections_rendered>>
    /\ UNCHANGED parseVars
    /\ UNCHANGED processVars

\* line 254, render_posts() has returned: quit() ends the process.  Lines
\* 255-260 (posts_by_tag.render(), the SiteRendering plugins and the stop of
\* the Rendering timer) follow the quit() and never run.
RenderQuit ==
    /\ pc = "render_posts"
    /\ Len(rendered) = Len(posts)
    /\ pc' = "exited"
    /\ exit_code' = 0
    /\ UNCHANGED <<running, error_calls, stop_on_error>>
    /\ UNCHANGED parseVars
    /\ UNCHANGED processVars
    /\ UNCHANGED renderVars

NextRender == RenderBegin \/ RenderPost \/ RenderQuit

\* ----------------------------------------- the stages after parse()
\* content of a site whose parse() returns: every post has a template
StageMetas ==
    {m \in PostMetas : /\ m.template # None
                       /\ m.microdata_type = None
                       /\ m.tags = {}}

StageFiles == UNION {[1..n -> StageMetas] : n \in 0..MaxStageFiles}

\* the state parse() returns in
InitBuild ==
    /\ pc = "process"
    /\ exit_code = 0
    /\ running = {"Overall"}
    /\ \E files \in StageFiles :
          LET s == ParseAll(EmptySite, files)
          IN  /\ post_idx = s.post_idx
              /\ parsed = s.parsed
              /\ posts = s.posts
              /\ posts_by_tag = s.posts_by_tag
              /\ posts_by_category = s.posts_by_category
              /\ posts_by_template = s.posts_by_template
              /\ posts_by_microdata = s.posts_by_microdata
              /\ errors = s.errors
              /\ warnings = s.warnings
    /\ ~HasErrors(errors)
    /\ error_calls = 0
    /\ log = <<>>
    /\ plugin_results = [k \in {OK, SKIPPED, ERROR} |-> 0]
    /\ stop_on_error \in BOOLEAN
    /\ rendered = <<>>
    /\ linted = <<>>
    /\ written = <<>>
    /\ collections_rendered = 0

NextBuild == NextProcess \/ NextRender

SpecBuild == InitBuild /\ [][NextBuild]_vars

\* ------------------------------------------------------------- claims
Ids == 1..Len(parsed)

Hidden(i) == parsed[i].hidden

Future(i) == parsed[i].creation_date_ts > CurrentTime

Retained(i) == ~Hidden(i) /\ ~Future(i)

InPosts(i) == \E k \in 1..Len(posts) : posts[k] = i

Warned(i) == \E k \in 1..Len(warnings) : warnings[k] = i

Recorded(i) == \E k \in 1..Len(errors) : errors[k][1] = i

Holds(collection, i) == \E e \in collection : e[2] = i

InNoCollection(i) ==
    /\ ~Holds(posts_by_tag, i)
    /\ ~Holds(posts_by_category, i)
    /\ ~Holds(posts_by_template, i)
    /\ ~Holds(posts_by_microdata, i)

OwnKeys(i) ==
    ({parsed[i].template, parsed[i].category, parsed[i].microdata_type}
        \ {None}) \cup parsed[i].tags

AllCollections ==
    posts_by_tag \cup posts_by_category \cup posts_by_template
        \cup posts_by_microdata

ParseReturned == pc = "process"

ParseOver == pc \in {"process", "exited"}

\* C1: every retained post that has a template is in posts_by_template under
\* its template, is in posts_by_category (under its category) exactly when it
\* has a category and in posts_by_microdata (under its microdata type) exactly
\* when it has a microdata type; and no collection holds a post under a key
\* that is not the post's own template, category, microdata type or tag.
C1_Grouping ==
    /\ \A i \in Ids :
          (Retained(i) /\ parsed[i].template # None) =>
             /\ <<parsed[i].template, i>> \in posts_by_template
             /\ Holds(posts_by_category, i) <=> parsed[i].category # None
             /\ parsed[i].category # None =>
                   <<parsed[i].category, i>> \in posts_by_category
             /\ Holds(posts_by_microdata, i) <=>
                   parsed[i].microdata_type # None
             /\ parsed[i].microdata_type # None =>
                   <<parsed[i].microdata_type, i>> \in posts_by_microdata
    /\ \A e \in AllCollections : e[2] \in Ids /\ e[1] \in OwnKeys(e[2])

C1_Witness ==
    /\ ParseReturned
    /\ \E i, j \in Ids :
          /\ Retained(i) /\ Retained(j)
          /\ parsed[i].category # None /\ parsed[i].microdata_type # None
          /\ <<parsed[i].category, i>> \in posts_by_category
          /\ <<parsed[i].microdata_type, i>> \in posts_by_microdata
          /\ parsed[j].template # None
          /\ parsed[j].category = None /\ parsed[j].microdata_type = None
          /\ <<parsed[j].template, j>> \in posts_by_template

\* C2: posts_by_tag lists a retained post that has a template under each of
\* its tags and under its category, so every entry of posts_by_category is an
\* entry of posts_by_tag.
C2_TagsHoldCategory ==
    /\ \A i \in Ids :
          (Retained(i) /\ parsed[i].template # None) =>
             /\ \A tag \in parsed[i].tags : <<tag, i>> \in posts_by_tag
             /\ parsed[i].category # None =>
                   <<parsed[i].category, i>> \in posts_by_tag
    /\ posts_by_category \subseteq posts_by_tag

C2_Witness ==
    /\ ParseReturned
    /\ \E i \in Ids :
          /\ parsed[i].category = "python"
          /\ parsed[i].tags = {"web"}
          /\ <<"python", i>> \in posts_by_category
          /\ <<"python", i>> \in posts_by_tag
          /\ <<"web", i>> \in posts_by_tag

\* C3 as stated: every post dated in the future gets a warning and is in
\* neither self.posts nor a collection, and every non-hidden, non-future post
\* is retained.
C3_AsStated ==
    /\ \A i \in Ids :
          Future(i) => Warned(i) /\ ~InPosts(i) /\ InNoCollection(i)
    /\ \A j \in Ids : Retained(j) => InPosts(j)

\* C3, amended: every post that is not hidden and is dated in the future gets
\* a warning and is in neither self.posts nor a collection, and every
\* non-hidden, non-future post is retained, the ones after it included.
C3_FutureSkipped ==
    /\ \A i \in Ids :
          (~Hidden(i) /\ Future(i)) =>
             Warned(i) /\ ~InPosts(i) /\ InNoCollection(i)
    /\ \A j \in Ids : Retained(j) => InPosts(j)

C3_Witness ==
    /\ ParseReturned
    /\ \E i, j \in Ids :
          /\ i < j
          /\ ~Hidden(i) /\ Future(i) /\ Warned(i)
          /\ parsed[i].template # None /\ parsed[i].category # None
          /\ Retained(j) /\ InPosts(j)

\* C4: a hidden post is neither in self.posts nor in any of the four
\* collections, whatever its template, category, tags or date.
C4_HiddenNotProcessed ==
    \A i \in Ids : Hidden(i) => ~InPosts(i) /\ InNoCollection(i)

C4_Witness ==
    /\ ParseReturned
    /\ \E i \in Ids :
          /\ Hidden(i) /\ ~Future(i)
          /\ parsed[i].template # None /\ parsed[i].category # None
          /\ parsed[i].tags # {}

\* C8 as stated: a post with no template is in no collection and its error
\* is recorded; parse() goes on to the end of the list and calls utils.error,
\* once, exactly when some post had no template.
C8_AsStated ==
    /\ \A i \in Ids :
          parsed[i].template = None => InNoCollection(i) /\ Recorded(i)
    /\ pc = "parse_loop" => error_calls = 0
    /\ error_calls <= 1
    /\ ParseOver =>
          (error_calls = 1 <=> \E i \in Ids : parsed[i].template = None)

\* C8, amended: a post with no template is in no collection; when it is
\* neither hidden nor dated in the future its error is recorded, parse() goes
\* on with the remaining files, and after the loop utils.error is called,
\* once, exactly when some such retained post had no template.
C8_NoTemplate ==
    /\ \A i \in Ids : parsed[i].template = None => InNoCollection(i)
    /\ \A i \in Ids :
          Recorded(i) <=> (Retained(i) /\ parsed[i].template = None)
    /\ \A j \in Ids :
          (Retained(j) /\ parsed[j].template # None) =>
             <<parsed[j].template, j>> \in posts_by_template
    /\ pc = "parse_loop" => error_calls = 0
    /\ error_calls <= 1
    /\ ParseOver =>
          (error_calls = 1 <=>
              \E i \in Ids : Retained(i) /\ parsed[i].template = None)

C8_Witness ==
    /\ pc = "exited"
    /\ error_calls = 1
    /\ \E i, j \in Ids :
          /\ i < j
          /\ Retained(i) /\ parsed[i].template = None
          /\ parsed[i].category # None /\ parsed[i].tags # {}
          /\ Retained(j) /\ <<parsed[j].template, j>> \in posts_by_template

\* the plugin runs of process(), in the order C6 gives
ExpectedRuns ==
    <<[plugin_class |-> "PostProcessor", unit |-> " posts", items |-> posts],
      [plugin_class |-> "CollectionProcessor", unit |-> " categories",
       items |-> posts_by_category],
      [plugin_class |-> "CollectionProcessor", unit |-> " tags",
       items |-> posts_by_tag],
      [plugin_class |-> "CollectionProcessor", unit |-> " templates",
       items |-> posts_by_template],
      [plugin_class |-> "CollectionProcessor", unit |-> " microdata",
       items |-> posts_by_microdata],
      [plugin_class |-> "SiteProcessor", unit |-> " site", items |-> <<1>>]>>

ProcessReturned == pc \in {"render", "render_posts", "exited"}

\* C6: the plugin runs of process() are, in this order, PostProcessor over
\* all posts, CollectionProcessor over the category, tag, template and
\* microdata collections, and SiteProcessor once; when process() returns all
\* six have run.
C6_ProcessOrder ==
    /\ Len(log) <= Len(ExpectedRuns)
    /\ \A k \in 1..Len(log) : log[k] = ExpectedRuns[k]
    /\ ProcessReturned => Len(log) = Len(ExpectedRuns)

C6_Witness ==
    /\ pc = "render"
    /\ Len(log) = 6
    /\ Len(posts) >= 2
    /\ posts_by_category # {}
    /\ log[6].plugin_class = "SiteProcessor"

\* C7: when the linter reports errors for a post and stop_on_error is set,
\* the program exits with status -1 with exactly the posts before that one
\* written and no later post rendered; when stop_on_error is not set every
\* rendered post is written, and all of self.posts once render_posts() is over.
C7_LintStop ==
    /\ \A k \in 1..Len(linted) :
          (linted[k].has_errors /\ stop_on_error) =>
             /\ k = Len(linted)
             /\ pc = "exited" /\ exit_code = -1
             /\ rendered = SubSeq(posts, 1, k)
             /\ written = SubSeq(posts, 1, k - 1)
    /\ ~stop_on_error =>
          /\ written = rendered
          /\ pc = "exited" => written = posts

C7_Witness ==
    /\ stop_on_error
    /\ Len(posts) = 3
    /\ Len(linted) = 2
    /\ ~linted[1].has_errors /\ linted[2].has_errors
    /\ written = <<posts[1]>>
    /\ pc = "exited" /\ exit_code = -1

\* C5: render() runs to its end: once every post is rendered and written,
\* the posts_by_tag collections are rendered, the SiteRendering plugins have
\* run once and the Rendering timer is stopped.
C5_RenderRunsToEnd ==
    (pc = "exited" /\ rendered = posts /\ written = posts) =>
       /\ collections_rendered = 1
       /\ Cardinality({k \in 1..Len(log) :
                          log[k].plugin_class = "SiteRendering"}) = 1
       /\ "Rendering" \notin running

====
